---- MODULE Spec2Model ----
(***************************************************************************)
(* Model of the heatmap generator, src/src/heatmap-js/                     *)
(* create_interactive_heatmap.js: main() reads a CSV text, parseCSV turns  *)
(* it into a matrix with row and column labels,                            *)
(* sortCandidatesByPerformance scores and reorders the columns, main       *)
(* computes the summary counts and generateHTML the overall success rate.  *)
(*                                                                         *)
(* Text is modelled as a sequence of one-character strings, so that trim,  *)
(* split, parseInt and the header filter are computed on characters.       *)
(* JavaScript values that can be a number, NaN or undefined are records    *)
(* [kind, val].                                                            *)
(***************************************************************************)
EXTENDS Integers, Sequences, FiniteSets, TLC

VARIABLES
    pc,                 \* position of main(): "read","parsed","sorted","counted","done"
    csvContent,         \* the input text (main, line 126)
    data,               \* parseCSV: matrix, a sequence of rows of integers
    challengeLabels,    \* parseCSV: row labels
    candidateCols,      \* parseCSV: column labels
    candidateSums,      \* sortCandidatesByPerformance: object, as its entries in property order
    sortedCandidates,   \* sortCandidatesByPerformance: reordered labels
    sortedData,         \* sortCandidatesByPerformance: reordered matrix (cells are JS values)
    totalChallenges,    \* main, line 137
    totalCandidates,    \* main, line 138
    totalSolutions,     \* main, line 139 (JS value)
    overallSuccessRate  \* generateHTML, line 65 (JS value, val in tenths of a percent)

vars == <<pc, csvContent, data, challengeLabels, candidateCols, candidateSums,
          sortedCandidates, sortedData, totalChallenges, totalCandidates,
          totalSolutions, overallSuccessRate>>

---------------------------------------------------------------------------
(* Bounds of the explored inputs *)

MaxCols == 2
MaxRows == 2

---------------------------------------------------------------------------
(* JavaScript values *)

Num(n) == [kind |-> "number", val |-> n]
NaN == [kind |-> "NaN", val |-> 0]
Infinity == [kind |-> "Infinity", val |-> 0]
undefined == [kind |-> "undefined", val |-> 0]

\* a + b on numbers; undefined converts to NaN, and NaN absorbs
JsAdd(a, b) ==
    IF a.kind = "number" /\ b.kind = "number" THEN Num(a.val + b.val) ELSE NaN

\* a - b, as used by the sort comparator
JsSub(a, b) ==
    IF a.kind = "number" /\ b.kind = "number" THEN Num(a.val - b.val) ELSE NaN

\* arr[i] with a 0-based index: undefined outside the array
ElementAt(arr, i) ==
    IF i + 1 \in DOMAIN arr THEN Num(arr[i + 1]) ELSE undefined

---------------------------------------------------------------------------
(* Strings *)

Whitespace == {" ", "\n", "\t", "\r"}
Digits == <<"0", "1", "2", "3", "4", "5", "6", "7", "8", "9">>

DigitValue(c) == (CHOOSE i \in DOMAIN Digits : Digits[i] = c) - 1
IsDigit(c) == \E i \in DOMAIN Digits : Digits[i] = c

RECURSIVE TrimStart(_)
TrimStart(s) ==
    IF s # <<>> /\ Head(s) \in Whitespace THEN TrimStart(Tail(s)) ELSE s

RECURSIVE TrimEnd(_)
TrimEnd(s) ==
    IF s # <<>> /\ s[Len(s)] \in Whitespace
    THEN TrimEnd(SubSeq(s, 1, Len(s) - 1))
    ELSE s

\* String.prototype.trim
Trim(s) == TrimEnd(TrimStart(s))

\* String.prototype.split(sep) with a one-character separator: the pieces
\* between separators; a string without separator (also the empty string)
\* gives one piece
RECURSIVE SplitFrom(_, _, _, _)
SplitFrom(s, sep, start, i) ==
    IF i > Len(s) THEN <<SubSeq(s, start, Len(s))>>
    ELSE IF s[i] = sep THEN <<SubSeq(s, start, i - 1)>> \o SplitFrom(s, sep, i + 1, i + 1)
    ELSE SplitFrom(s, sep, start, i + 1)

Split(s, sep) == SplitFrom(s, sep, 1, 1)

RECURSIVE DigitPrefix(_)
DigitPrefix(s) ==
    IF s # <<>> /\ IsDigit(Head(s)) THEN <<Head(s)>> \o DigitPrefix(Tail(s)) ELSE <<>>

RECURSIVE DecimalValue(_, _)
DecimalValue(ds, acc) ==
    IF ds = <<>> THEN acc ELSE DecimalValue(Tail(ds), 10 * acc + DigitValue(Head(ds)))

\* parseInt(s): leading whitespace skipped, an optional sign, then the
\* longest run of decimal digits; NaN when there is no digit
\* (decimal only: a 0x prefix does not occur in the inputs)
ParseInt(s) ==
    LET t == TrimStart(s)
        neg == t # <<>> /\ Head(t) = "-"
        u == IF t # <<>> /\ Head(t) \in {"-", "+"} THEN Tail(t) ELSE t
        ds == DigitPrefix(u)
    IN  IF ds = <<>> THEN NaN
        ELSE Num(IF neg THEN 0 - DecimalValue(ds, 0) ELSE DecimalValue(ds, 0))

\* parseInt(v) || 0 : NaN and 0 are falsy
ParseIntOrZero(s) ==
    LET v == ParseInt(s)
    IN  IF v.kind = "number" /\ v.val # 0 THEN v.val ELSE 0

---------------------------------------------------------------------------
(* parseCSV *)

Challenge == <<"C", "h", "a", "l", "l", "e", "n", "g", "e">>
Created_At == <<"C", "r", "e", "a", "t", "e", "d", "_", "A", "t">>
Difficulty == <<"D", "i", "f", "f", "i", "c", "u", "l", "t", "y">>

ExcludedHeaders == {Challenge, Created_At, Difficulty}

\* const lines = csvContent.trim().split('\n')
Lines(text) == Split(Trim(text), "\n")

\* const headers = lines[0].split(',')
Headers(lines) == Split(lines[1], ",")

\* headers.filter(col => !['Challenge','Created_At','Difficulty'].includes(col))
CandidateColsOf(lines) ==
    SelectSeq(Headers(lines), LAMBDA col : col \notin ExcludedHeaders)

\* for (j = 3; j < values.length; j++) row.push(parseInt(values[j]) || 0)
RowOf(values) ==
    [j \in 1..(IF Len(values) > 3 THEN Len(values) - 3 ELSE 0) |->
        ParseIntOrZero(values[j + 3])]

\* for (i = 1; i < lines.length; i++) { values = lines[i].split(','); ... data.push(row) }
DataOf(lines) ==
    [i \in 1..(Len(lines) - 1) |-> RowOf(Split(lines[i + 1], ","))]

\* challengeLabels.push(values[0])
ChallengeLabelsOf(lines) ==
    [i \in 1..(Len(lines) - 1) |-> Split(lines[i + 1], ",")[1]]

---------------------------------------------------------------------------
(* Inputs *)

Join2(a, sep, b) == a \o <<sep>> \o b

RECURSIVE Join(_, _)
Join(parts, sep) ==
    IF parts = <<>> THEN <<>>
    ELSE IF Len(parts) = 1 THEN parts[1]
    ELSE Join2(parts[1], sep, Join(Tail(parts), sep))

SeqsUpTo(S, n) == UNION {[1..k -> S] : k \in 0..n}

FirstHeaderFields == {Challenge, <<"I", "D">>}
CandidateNames == {<<"A">>, <<"B">>, <<"2">>}
CellTexts == {<<"0">>, <<"1">>}

\* the value fields of the data lines under a header with k fields after the
\* third: every line has k of them, but the last line may lack its last field
RowsOf(k) ==
    UNION { { [i \in 1..n |-> IF i < n THEN full[i] ELSE SubSeq(full[i], 1, len)] :
                full \in [1..n -> [1..k -> CellTexts]],
                len \in (IF k > 0 /\ n > 0 THEN {k - 1, k} ELSE {k}) } :
            n \in 0..MaxRows }

RowLine(cells) == Join(<<<<"x">>, <<"t">>, <<"d">>>> \o cells, ",")

HeaderLine(first, names) == Join(<<first, Created_At, Difficulty>> \o names, ",")

BlankTexts == {<<>>, <<" ">>, <<"\n">>}

CsvOf(first, names, rows) ==
    Join(<<HeaderLine(first, names)>> \o [i \in DOMAIN rows |-> RowLine(rows[i])], "\n")

\* the text csvContent is one of the inputs: a blank text, or a header line
\* that yields at most MaxCols column labels, followed by at most MaxRows
\* data lines
IsInput(text) ==
    \/ text \in BlankTexts
    \/ \E first \in FirstHeaderFields :
         \E names \in SeqsUpTo(CandidateNames,
                                IF first \in ExcludedHeaders THEN MaxCols ELSE MaxCols - 1) :
            \E rows \in RowsOf(Len(names)) :
                text = CsvOf(first, names, rows)

---------------------------------------------------------------------------
(* Objects: candidateSums is a plain object keyed by label.  It is kept   *)
(* as the sequence of its entries in own-property order: keys that are    *)
(* array indices first, in ascending numeric order, then the other keys   *)
(* in insertion order.                                                     *)

\* a canonical array-index key: decimal digits without a leading zero
IsArrayIndex(key) ==
    /\ key # <<>>
    /\ \A i \in DOMAIN key : IsDigit(key[i])
    /\ (Len(key) = 1 \/ key[1] # "0")

HasKey(obj, key) == \E i \in DOMAIN obj : obj[i].key = key

\* obj[key]
Get(obj, key) ==
    IF HasKey(obj, key)
    THEN obj[CHOOSE i \in DOMAIN obj : obj[i].key = key].value
    ELSE undefined

\* number of entries that stay in front of a new key
InsertPos(obj, key) ==
    IF IsArrayIndex(key)
    THEN Cardinality({i \in DOMAIN obj :
            IsArrayIndex(obj[i].key)
            /\ DecimalValue(obj[i].key, 0) < DecimalValue(key, 0)})
    ELSE Len(obj)

\* obj[key] = value
ObjSet(obj, key, value) ==
    IF HasKey(obj, key)
    THEN [i \in DOMAIN obj |->
            IF obj[i].key = key THEN [key |-> key, value |-> value] ELSE obj[i]]
    ELSE LET p == InsertPos(obj, key)
         IN  SubSeq(obj, 1, p) \o <<[key |-> key, value |-> value]>>
                \o SubSeq(obj, p + 1, Len(obj))

---------------------------------------------------------------------------
(* sortCandidatesByPerformance *)

\* data.reduce((sum, row) => sum + row[index], 0), index 0-based
RECURSIVE ColumnSumFrom(_, _, _)
ColumnSumFrom(rows, index, sum) ==
    IF rows = <<>> THEN sum
    ELSE ColumnSumFrom(Tail(rows), index, JsAdd(sum, ElementAt(Head(rows), index)))

ColumnSum(rows, index) == ColumnSumFrom(rows, index, Num(0))

\* candidateCols.forEach((candidate, index) => candidateSums[candidate] = ...)
RECURSIVE SumsFrom(_, _, _, _)
SumsFrom(rows, cols, index, obj) ==
    IF index >= Len(cols) THEN obj
    ELSE SumsFrom(rows, cols, index + 1,
                  ObjSet(obj, cols[index + 1], ColumnSum(rows, index)))

CandidateSumsOf(rows, cols) == SumsFrom(rows, cols, 0, <<>>)

\* the comparator ([, a], [, b]) => a - b as Array.prototype.sort reads it:
\* negative, zero or positive, a NaN result counting as zero
Compare(a, b) ==
    LET d == JsSub(a, b)
    IN  IF d.kind # "number" THEN 0
        ELSE IF d.val < 0 THEN -1
        ELSE IF d.val > 0 THEN 1
        ELSE 0

\* a consistent comparator orders the values: "equal" and "less" are transitive
ConsistentComparator(vals) ==
    \A a, b, c \in vals :
        /\ (Compare(a, b) = 0 /\ Compare(b, c) = 0 => Compare(a, c) = 0)
        /\ (Compare(a, b) < 0 /\ Compare(b, c) < 0 => Compare(a, c) < 0)
        /\ (Compare(a, b) = 0 /\ Compare(b, c) < 0 => Compare(a, c) < 0)
        /\ (Compare(a, b) < 0 /\ Compare(b, c) = 0 => Compare(a, c) < 0)

\* a sort that is not stable: an element goes in front of its equals
RECURSIVE InsertUnstable(_, _)
InsertUnstable(sorted, e) ==
    IF sorted = <<>> THEN <<e>>
    ELSE IF Compare(Head(sorted).value, e.value) >= 0 THEN <<e>> \o sorted
    ELSE <<Head(sorted)>> \o InsertUnstable(Tail(sorted), e)

\* the order a stable sort gives: each element goes behind the elements
\* that do not compare greater than it, earlier elements first
RECURSIVE InsertStable(_, _)
InsertStable(sorted, e) ==
    IF sorted = <<>> THEN <<e>>
    ELSE IF Compare(Head(sorted).value, e.value) > 0 THEN <<e>> \o sorted
    ELSE <<Head(sorted)>> \o InsertStable(Tail(sorted), e)

RECURSIVE StableSortFrom(_, _)
StableSortFrom(entries, sorted) ==
    IF entries = <<>> THEN sorted
    ELSE StableSortFrom(Tail(entries), InsertStable(sorted, Head(entries)))

StableSort(entries) == StableSortFrom(entries, <<>>)

\* Array.prototype.sort(comparefn): stable for a consistent comparator; with
\* an inconsistent one the order is implementation-defined
SortOutcomes(entries) ==
    LET vals == {entries[i].value : i \in DOMAIN entries}
    IN  IF ConsistentComparator(vals)
        THEN {StableSort(entries)}
        ELSE {[i \in DOMAIN entries |-> entries[p[i]]] : p \in Permutations(DOMAIN entries)}

\* candidateCols.indexOf(candidate), 0-based, -1 when absent
IndexOf(cols, candidate) ==
    IF \E i \in DOMAIN cols : cols[i] = candidate
    THEN (CHOOSE i \in DOMAIN cols :
            cols[i] = candidate /\ \A j \in 1..(i - 1) : cols[j] # candidate) - 1
    ELSE -1

\* the labels reordered and the values left where they were
ReorderRowInPlace(row, cols, sorted) ==
    [i \in DOMAIN sorted |-> ElementAt(row, i - 1)]

\* row => sortedCandidates.map(candidate => row[candidateCols.indexOf(candidate)])
ReorderRow(row, cols, sorted) ==
    [i \in DOMAIN sorted |-> ElementAt(row, IndexOf(cols, sorted[i]))]

SortedDataOf(rows, cols, sorted) ==
    [r \in DOMAIN rows |-> ReorderRow(rows[r], cols, sorted)]

---------------------------------------------------------------------------
(* main and generateHTML *)

\* Object.values(candidateSums).reduce((sum, val) => sum + val, 0)
RECURSIVE SumValuesFrom(_, _)
SumValuesFrom(entries, sum) ==
    IF entries = <<>> THEN sum
    ELSE SumValuesFrom(Tail(entries), JsAdd(sum, Head(entries).value))

TotalSolutionsOf(obj) == SumValuesFrom(obj, Num(0))

\* (totalSolutions / (totalChallenges * totalCandidates) * 100).toFixed(1),
\* as a number of tenths: 0/0 and NaN/x are NaN, x/0 is Infinity for x > 0
OverallSuccessRateOf(solutions, challenges, candidates) ==
    LET d == challenges * candidates
    IN  IF solutions.kind # "number" THEN NaN
        ELSE IF d = 0 THEN (IF solutions.val = 0 THEN NaN ELSE Infinity)
        ELSE Num((2000 * solutions.val + d) \div (2 * d))

---------------------------------------------------------------------------
(* The run of main() *)

Init ==
    /\ pc = "read"
    /\ IsInput(csvContent)
    /\ data = <<>>
    /\ challengeLabels = <<>>
    /\ candidateCols = <<>>
    /\ candidateSums = <<>>
    /\ sortedCandidates = <<>>
    /\ sortedData = <<>>
    /\ totalChallenges = 0
    /\ totalCandidates = 0
    /\ totalSolutions = Num(0)
    /\ overallSuccessRate = Num(0)

\* main line 127: const { data, challengeLabels, candidateCols } = parseCSV(csvContent)
parseCSV ==
    /\ pc = "read"
    /\ LET lines == Lines(csvContent)
       IN  /\ data' = DataOf(lines)
           /\ challengeLabels' = ChallengeLabelsOf(lines)
           /\ candidateCols' = CandidateColsOf(lines)
    /\ pc' = "parsed"
    /\ UNCHANGED <<csvContent, candidateSums, sortedCandidates, sortedData,
                   totalChallenges, totalCandidates, totalSolutions, overallSuccessRate>>

\* main line 134
sortCandidatesByPerformance ==
    /\ pc = "parsed"
    /\ candidateSums' = CandidateSumsOf(data, candidateCols)
    /\ \E sorted \in SortOutcomes(candidateSums') :
            sortedCandidates' = [i \in DOMAIN sorted |-> sorted[i].key]
    /\ sortedData' = SortedDataOf(data, candidateCols, sortedCandidates')
    /\ pc' = "sorted"
    /\ UNCHANGED <<csvContent, data, challengeLabels, candidateCols,
                   totalChallenges, totalCandidates, totalSolutions, overallSuccessRate>>

\* main lines 137-139
calculateStatistics ==
    /\ pc = "sorted"
    /\ totalChallenges' = Len(data)
    /\ totalCandidates' = Len(candidateCols)
    /\ totalSolutions' = TotalSolutionsOf(candidateSums)
    /\ pc' = "counted"
    /\ UNCHANGED <<csvContent, data, challengeLabels, candidateCols, candidateSums,
                   sortedCandidates, sortedData, overallSuccessRate>>

\* main line 147, generateHTML line 65
generateHTML ==
    /\ pc = "counted"
    /\ overallSuccessRate' =
            OverallSuccessRateOf(totalSolutions, totalChallenges, totalCandidates)
    /\ pc' = "done"
    /\ UNCHANGED <<csvContent, data, challengeLabels, candidateCols, candidateSums,
                   sortedCandidates, sortedData, totalChallenges, totalCandidates,
                   totalSolutions>>

Next ==
    \/ parseCSV
    \/ sortCandidatesByPerformance
    \/ calculateStatistics
    \/ generateHTML

Spec == Init /\ [][Next]_vars

---------------------------------------------------------------------------
(* Notions the properties are stated in *)

Parsed == pc # "read"
Sorted == pc \in {"sorted", "counted", "done"}
Counted == pc \in {"counted", "done"}

\* the characters of labels, in ascending order of their code units
CodeOrder ==
    <<"0", "1", "2", "3", "4", "5", "6", "7", "8", "9",
      "A", "B", "C", "D", "E", "F", "G", "H", "I", "J", "K", "L", "M",
      "N", "O", "P", "Q", "R", "S", "T", "U", "V", "W", "X", "Y", "Z", "_",
      "a", "b", "c", "d", "e", "f", "g", "h", "i", "j", "k", "l", "m",
      "n", "o", "p", "q", "r", "s", "t", "u", "v", "w", "x", "y", "z">>

CodeUnit(c) == CHOOSE i \in DOMAIN CodeOrder : CodeOrder[i] = c

\* a < b in lexicographic (code unit) order
RECURSIVE LexLess(_, _)
LexLess(a, b) ==
    IF b = <<>> THEN FALSE
    ELSE IF a = <<>> THEN TRUE
    ELSE IF Head(a) # Head(b) THEN CodeUnit(Head(a)) < CodeUnit(Head(b))
    ELSE LexLess(Tail(a), Tail(b))

\* the score the score map holds for a label
Score(label) == Get(candidateSums, label)

EqualScores(a, b) ==
    Score(a).kind = "number" /\ Score(b).kind = "number" /\ Score(a).val = Score(b).val

\* 1-based position of the first header column that carries the label
FirstPos(label) ==
    CHOOSE k \in DOMAIN candidateCols :
        candidateCols[k] = label /\ \A j \in 1..(k - 1) : candidateCols[j] # label

\* the order of own property keys, told from the header: array-index labels
\* in numeric order, then the other labels by first occurrence
KeyBefore(a, b) ==
    IF IsArrayIndex(a)
    THEN ~IsArrayIndex(b) \/ DecimalValue(a, 0) < DecimalValue(b, 0)
    ELSE ~IsArrayIndex(b) /\ FirstPos(a) < FirstPos(b)

\* sum of the values a column actually holds, rows without the cell adding nothing
RECURSIVE PresentSum(_, _)
PresentSum(rows, k) ==
    IF rows = <<>> THEN 0
    ELSE (IF k \in DOMAIN Head(rows) THEN Head(rows)[k] ELSE 0) + PresentSum(Tail(rows), k)

RECURSIVE SeqSum(_)
SeqSum(row) == IF row = <<>> THEN 0 ELSE Head(row) + SeqSum(Tail(row))

\* sum of all cells of the parsed matrix
RECURSIVE MatrixSum(_)
MatrixSum(rows) == IF rows = <<>> THEN 0 ELSE SeqSum(Head(rows)) + MatrixSum(Tail(rows))

RECURSIVE JsSeqSum(_)
JsSeqSum(row) == IF row = <<>> THEN Num(0) ELSE JsAdd(Head(row), JsSeqSum(Tail(row)))

\* sum of all cells of the reordered matrix
RECURSIVE JsMatrixSum(_)
JsMatrixSum(rows) ==
    IF rows = <<>> THEN Num(0) ELSE JsAdd(JsSeqSum(Head(rows)), JsMatrixSum(Tail(rows)))

\* number of columns of the matrix: the longest row; the labels when there is no row
MatrixColumns ==
    IF data = <<>> THEN Len(candidateCols)
    ELSE CHOOSE n \in {Len(data[r]) : r \in DOMAIN data} :
            \A r \in DOMAIN data : Len(data[r]) <= n

\* the fields of the header line of the input
HeaderFields == Headers(Lines(csvContent))

StandardHeader ==
    /\ Len(HeaderFields) >= 3
    /\ SubSeq(HeaderFields, 1, 3) = <<Challenge, Created_At, Difficulty>>

DistinctLabels ==
    \A i, j \in DOMAIN candidateCols : candidateCols[i] = candidateCols[j] => i = j

Rectangular == \A r \in DOMAIN data : Len(data[r]) = Len(candidateCols)

\* a header that begins with the reserved names, distinct labels, full rows
WellFormed == StandardHeader /\ DistinctLabels /\ Rectangular

---------------------------------------------------------------------------
(* Properties *)

\* C1: after sortCandidatesByPerformance every row of sortedData has one cell
\* per reordered label, and cell i of row r is the cell of data[r] at the
\* original position k of the column whose label is sortedCandidates[i] (the
\* first such column): labels and values are permuted alike.
C1_LabelsNameTheirColumns ==
    Sorted =>
        /\ DOMAIN sortedData = DOMAIN data
        /\ \A r \in DOMAIN sortedData :
            /\ DOMAIN sortedData[r] = DOMAIN sortedCandidates
            /\ \A i \in DOMAIN sortedCandidates :
                \E k \in DOMAIN candidateCols :
                    /\ k = FirstPos(sortedCandidates[i])
                    /\ sortedData[r][i] = ElementAt(data[r], k - 1)

\* C1 witness: two rows of a full matrix whose two columns were swapped
C1_Witness ==
    /\ pc = "done"
    /\ Len(data) = 2
    /\ Rectangular
    /\ Len(candidateCols) = 2
    /\ sortedCandidates = <<candidateCols[2], candidateCols[1]>>
    /\ data[1] = <<1, 0>>
    /\ sortedData[1] = <<Num(0), Num(1)>>

\* C2 (as stated): columns with equal scores stand in lexicographic order of
\* their labels, whatever the header order.  (Stated for headers that begin
\* with the three reserved names, the inputs C6 does not touch.)
C2_TiesInLexicographicOrder ==
    (Sorted /\ StandardHeader) =>
        \A i, j \in DOMAIN sortedCandidates :
            (i < j /\ EqualScores(sortedCandidates[i], sortedCandidates[j]))
                => LexLess(sortedCandidates[i], sortedCandidates[j])

\* C2 (amended): whenever the comparator a - b is consistent over the scores,
\* columns with equal scores keep the order of the score map's keys:
\* array-index labels in numeric order first, then the other labels in the
\* order of their first occurrence in the header.
C2_TiesInKeyOrder ==
    Sorted =>
        \A i, j \in DOMAIN sortedCandidates :
            (i < j /\ EqualScores(sortedCandidates[i], sortedCandidates[j]))
                => \/ KeyBefore(sortedCandidates[i], sortedCandidates[j])
                   \/ ~ConsistentComparator({candidateSums[k].value : k \in DOMAIN candidateSums})

\* C2 witness: header order B,A, both columns scoring 1, B stays before A
C2_Witness ==
    /\ pc = "done"
    /\ candidateCols = <<<<"B">>, <<"A">>>>
    /\ Score(<<"A">>) = Num(1)
    /\ Score(<<"B">>) = Num(1)
    /\ sortedCandidates = <<<<"B">>, <<"A">>>>

\* C3: the reordered labels are in ascending score order: the score of each
\* label is <= the score of the next one.  (Stated for headers that begin with
\* the three reserved names.)
C3_AscendingScores ==
    (Sorted /\ StandardHeader) =>
        \A i \in 1..(Len(sortedCandidates) - 1) :
            /\ Score(sortedCandidates[i]).kind = "number"
            /\ Score(sortedCandidates[i + 1]).kind = "number"
            /\ Score(sortedCandidates[i]).val <= Score(sortedCandidates[i + 1]).val

\* C4: the reordering is a permutation of the header's columns: as many
\* labels as columns, every column exactly once, and the scores attached to
\* the reordered labels are the per-column sums, each once.  (Stated for
\* headers that begin with the three reserved names and matrices without a
\* short row.)
C4_TruePermutation ==
    (Sorted /\ StandardHeader /\ Rectangular) =>
        /\ Len(sortedCandidates) = Len(candidateCols)
        /\ \E p \in Permutations(DOMAIN candidateCols) :
            \A i \in DOMAIN candidateCols :
                /\ sortedCandidates[i] = candidateCols[p[i]]
                /\ Score(sortedCandidates[i]) = ColumnSum(data, p[i] - 1)

\* C5: the score map has one entry per column of the matrix, and each
\* column's score is the sum of that column's values over all rows.  (Stated
\* for headers that begin with the three reserved names.)
C5_ScoresAreColumnSums ==
    (Sorted /\ StandardHeader) =>
        /\ Len(candidateSums) = MatrixColumns
        /\ Len(candidateSums) = Len(candidateCols)
        /\ \A k \in DOMAIN candidateCols :
            Score(candidateCols[k]) = Num(PresentSum(data, k))

\* C6: the column labels are the header fields from position 4 on, in header
\* order, whatever the first three fields are called.
C6_LabelsByPosition ==
    (Parsed /\ Len(HeaderFields) >= 3) =>
        candidateCols = SubSeq(HeaderFields, 4, Len(HeaderFields))

\* C7: with a row that has fewer values than there are column labels, every
\* score is the integer sum of the values present in its column and every
\* cell of the reordered matrix is an integer.  (Stated for headers that begin
\* with the three reserved names and carry distinct labels.)
C7_RaggedRowsCountAsZero ==
    (Sorted /\ StandardHeader /\ DistinctLabels /\ \E r \in DOMAIN data : Len(data[r]) < Len(candidateCols)) =>
        /\ \A k \in DOMAIN candidateCols :
            Score(candidateCols[k]) = Num(PresentSum(data, k))
        /\ \A r \in DOMAIN sortedData : \A i \in DOMAIN sortedData[r] :
            sortedData[r][i].kind = "number"

\* C8: on empty or blank text parseCSV fails: main never gets past it, and no
\* column labels or rows come out of it.
C8_BlankInputFails ==
    (Trim(csvContent) = <<>>) =>
        /\ pc = "read"
        /\ candidateCols = <<>>
        /\ data = <<>>

\* C9: with a header and no data row, or no candidate column, the overall
\* rate is the number 0.  (Stated for headers that begin with the three
\* reserved names.)
C9_EmptyMatrixRateIsZero ==
    (pc = "done" /\ StandardHeader
        /\ (totalChallenges = 0 \/ totalCandidates = 0)) =>
        overallSuccessRate = Num(0)

\* C10: the summary counts describe the matrix: totalChallenges is the number
\* of data lines, totalCandidates the number of matrix columns, and
\* totalSolutions the sum of all cells, of the original as of the reordered
\* matrix.  (Stated for headers that begin with the three reserved names.)
C10_SummaryDescribesMatrix ==
    (Counted /\ StandardHeader) =>
        /\ totalChallenges = Len(Lines(csvContent)) - 1
        /\ totalCandidates = MatrixColumns
        /\ totalSolutions = Num(MatrixSum(data))
        /\ totalSolutions = JsMatrixSum(sortedData)

====
